---- MODULE Spec2Model ----
(***************************************************************************)
(* Model of assets/24/make_booklet.py: the booklet page-ordering functions *)
(* booklet_pages / booklet_pages_to_list and the main() pipeline around    *)
(* them (argument handling, temporary directory, external tools, signal    *)
(* handlers, exit status).                                                 *)
(***************************************************************************)
EXTENDS Integers, Sequences, FiniteSets, TLC

\* ---------------------------------------------------------------- bounds
MaxN == 12          \* largest page count given to booklet_pages directly
MaxStart == 5       \* largest start page given to booklet_pages directly
MaxDoc == 5         \* largest page count of the input document
MaxPagesArg == 4    \* largest value of -n/--pages
MaxStartArg == 2    \* largest value of -S/--start
MaxSignals == 2     \* signals delivered to one run

StartPages == (0 - 1)..MaxStart
StartArgs == (0 - 1)..MaxStartArg

Signals == {"SIGINT", "SIGTERM", "SIGQUIT"}

\* exit status of a process ended by the default action of a signal
SigStatus(sig) ==
    CASE sig = "SIGINT" -> 130
      [] sig = "SIGQUIT" -> 131
      [] OTHER -> 143

VARIABLES
    args,         \* argparse namespace (global args)
    outputFile,   \* the target output file: "absent", "old" or "new"
    docPages,     \* page count of the input document (0: no input given)
    extPages,     \* page count of <temp_dir>/extended.pdf
    temp_dir,     \* "unset", "exists" or "removed"
    handlers,     \* signals whose handler is handle_cleanup
    pc,           \* position of the process
    ret,          \* where the running booklet_pages call returns to
    call_n,       \* argument n of the running booklet_pages call
    n,            \* local n of booklet_pages (reassigned at line 28)
    start_page,   \* parameter start_page of booklet_pages
    left, right, offset, sheets,   \* locals of booklet_pages
    iter,         \* iterations of the while loop executed so far
    pages_list,   \* result of booklet_pages_to_list
    total_pages, pages_needed, pages_to_add,  \* locals of main / add_blank_pages_to_pdf
    calls,        \* external tools invoked so far, with their outcome
    reorder_arg,  \* page_order handed to reorder_pdf_pages, and the document size
    printed,      \* tokens written to stdout
    pending,      \* exit status carried by an exception in flight (0: none)
    exitStatus,   \* exit status of the process (-1 while running)
    sigCount,     \* signals delivered so far
    signalled     \* a signal ended (or is ending) the process

fnvars == <<call_n, n, start_page, left, right, offset, sheets, iter, pages_list>>
envvars == <<outputFile, docPages, extPages, temp_dir, handlers>>
mainvars == <<total_pages, pages_needed, pages_to_add, calls, reorder_arg,
              printed, pending, exitStatus>>
sigvars == <<sigCount, signalled>>
vars == <<args, pc, ret, fnvars, envvars, mainvars, sigvars>>

\* ------------------------------------------------- booklet_pages, line 28
RoundUp4_NoOuterMod(m) == m + (4 - (m % 4))

RoundUp4(m) == m + ((4 - (m % 4)) % 4)

\* line 34
Offset_NoMinusOne(s) == s

Offset(s) == s - 1

\* line 35
LoopCond(l, r) == l < r

\* lines 36-41
Sheet_DupInner(l, r, off) == <<r + off, l + off, l + 1 + off, r + off>>

Sheet_NoOffsetInner(l, r, off) == <<r + off, l + off, l + 1, r - 1 + off>>

Sheet(l, r, off) == <<r + off, l + off, l + 1 + off, r - 1 + off>>

\* lines 35-45 as a recursion on the two cursors
RECURSIVE BookletLoop(_, _, _, _)
BookletLoop(l, r, off, acc) ==
    IF LoopCond(l, r)
    THEN BookletLoop(l + 2, r - 2, off, Append(acc, Sheet(l, r, off)))
    ELSE acc

\* booklet_pages(n, start_page) as a function of its arguments
BookletPages(m, s) == BookletLoop(1, RoundUp4(m), Offset(s), <<>>)

\* booklet_pages_to_list, line 59
RECURSIVE booklet_pages_to_list_rev(_)
booklet_pages_to_list_rev(bs) ==
    IF bs = <<>> THEN <<>>
    ELSE booklet_pages_to_list_rev(Tail(bs)) \o Head(bs)

RECURSIVE booklet_pages_to_list(_)
booklet_pages_to_list(bs) ==
    IF bs = <<>> THEN <<>>
    ELSE Head(bs) \o booklet_pages_to_list(Tail(bs))

FnPCs == {"bp_enter", "bp_loop", "to_list"}

\* lines 25-34: round n up, initialise the cursors
BP_Enter ==
    /\ pc = "bp_enter"
    /\ n' = RoundUp4(n)
    /\ sheets' = <<>>
    /\ left' = 1
    /\ right' = RoundUp4(n)
    /\ offset' = Offset(start_page)
    /\ iter' = 0
    /\ pc' = "bp_loop"
    /\ UNCHANGED <<args, ret, call_n, start_page, pages_list, envvars, mainvars, sigvars>>

\* lines 35-45: one iteration of the while loop
BP_Iterate ==
    /\ pc = "bp_loop"
    /\ LoopCond(left, right)
    /\ sheets' = Append(sheets, Sheet(left, right, offset))
    /\ left' = left + 2
    /\ right' = right - 2
    /\ iter' = iter + 1
    /\ UNCHANGED <<args, pc, ret, call_n, n, start_page, offset, pages_list,
                   envvars, mainvars, sigvars>>

\* lines 35, 47: the loop condition fails, sheets is returned
BP_Return ==
    /\ pc = "bp_loop"
    /\ ~LoopCond(left, right)
    /\ pc' = "to_list"
    /\ UNCHANGED <<args, ret, fnvars, envvars, mainvars, sigvars>>

\* lines 49-61 (called at 206 / 254)
ToList ==
    /\ pc = "to_list"
    /\ pages_list' = booklet_pages_to_list(sheets)
    /\ pc' = ret
    /\ UNCHANGED <<args, ret, call_n, n, start_page, left, right, offset, sheets, iter,
                   envvars, mainvars, sigvars>>

NoArgs == [print_pages |-> FALSE, has_input |-> FALSE, pages_given |-> FALSE,
           pages |-> 0, start |-> 1, keep_temp |-> FALSE, force |-> FALSE]

\* a direct call booklet_pages_to_list(booklet_pages(n, start_page))
InitFn ==
    /\ args = NoArgs
    /\ outputFile = "absent" /\ docPages = 0 /\ extPages = 0
    /\ temp_dir = "unset" /\ handlers = {}
    /\ pc = "bp_enter" /\ ret = "fn_done"
    /\ call_n \in 0..MaxN /\ n = call_n
    /\ start_page \in StartPages
    /\ left = 0 /\ right = 0 /\ offset = 0 /\ sheets = <<>> /\ iter = 0
    /\ pages_list = <<>>
    /\ total_pages = 0 /\ pages_needed = 0 /\ pages_to_add = 0
    /\ calls = <<>> /\ reorder_arg = [order |-> <<>>, docsize |-> 0, called |-> FALSE]
    /\ printed = <<>> /\ pending = 0 /\ exitStatus = -1
    /\ sigCount = 0 /\ signalled = FALSE

NextFn == BP_Enter \/ BP_Iterate \/ BP_Return \/ ToList

SpecFn == InitFn /\ [][NextFn]_vars

\* the interpreter keeps executing the function until it returns
SpecFnFair == SpecFn /\ WF_vars(NextFn)

\* ------------------------------------------------------------------ main
\* return codes of the external tools (pdftk, convert, pdfjam)
ReturnCodes == {0, 1}

\* lines 75, 95, 120, 141, 163: result.returncode != 0
CollabFailed_Ignored(rc) == rc < 0

CollabFailed(rc) == rc # 0

\* outcomes of `pdftk <file> dump_data`: return code, and whether the
\* output has a NumberOfPages line (lines 74-84)
CountOutcomes == {[rc |-> 0, line |-> TRUE], [rc |-> 0, line |-> FALSE],
                  [rc |-> 1, line |-> FALSE]}

CountOk(o) == ~CollabFailed(o.rc) /\ o.line

\* line 200: `elif args.pages:` (None and 0 are both falsy)
PagesSupplied(a) == a.pages_given /\ a.pages # 0

\* line 221: os.path.exists(output_pdf) and not args.force
OutputBlocked_LostNot(exists, force) == exists /\ force

OutputBlocked(exists, force) == exists /\ ~force

\* line 207: separator.join(map(str, pages_list))
RECURSIVE Join(_)
Join(l) ==
    IF l = <<>> THEN <<>>
    ELSE IF Len(l) = 1 THEN <<[kind |-> "page", val |-> l[1]]>>
    ELSE <<[kind |-> "page", val |-> l[1]], [kind |-> "sep", val |-> 0]>> \o Join(Tail(l))

\* positions inside the try block of lines 236-258
InTry ==
    \/ pc \in {"copy", "count", "blank", "add_count", "add_cat", "count_padded",
               "reorder", "booklet"}
    \/ pc \in FnPCs /\ ret = "reorder"

\* an exception (SystemExit or an error) carrying exit status st is raised:
\* inside the try block the finally clause runs next, elsewhere the
\* process ends
Raise(st, intry) ==
    IF intry
    THEN pc' = "finally" /\ pending' = st /\ exitStatus' = exitStatus
    ELSE pc' = "exited" /\ exitStatus' = st /\ pending' = pending

Logged(tool, ok) == Append(calls, [tool |-> tool, ok |-> ok])

\* lines 205 / 253: sheets = booklet_pages(total, args.start)
CallBookletPages(total, back) ==
    /\ call_n' = total /\ n' = total /\ start_page' = args.start
    /\ ret' = back
    /\ UNCHANGED <<left, right, offset, sheets, iter, pages_list>>

\* lines 197-199: --print-pages with an input document
Main_PrintPages_Input ==
    /\ pc = "main" /\ args.print_pages /\ args.has_input
    /\ \E o \in CountOutcomes :
          /\ calls' = Logged("count", o.rc = 0 /\ o.line)
          /\ IF CountOk(o)
             THEN /\ total_pages' = docPages
                  /\ CallBookletPages(docPages, "print")
                  /\ pc' = "bp_enter"
                  /\ UNCHANGED <<pending, exitStatus>>
             ELSE /\ Raise(1, FALSE)
                  /\ UNCHANGED <<total_pages, ret, fnvars>>
    /\ UNCHANGED <<args, envvars, pages_needed, pages_to_add, reorder_arg, printed, sigvars>>

\* lines 200-201: --print-pages with -n/--pages
Main_PrintPages_N ==
    /\ pc = "main" /\ args.print_pages /\ ~args.has_input /\ PagesSupplied(args)
    /\ total_pages' = args.pages
    /\ CallBookletPages(args.pages, "print")
    /\ pc' = "bp_enter"
    /\ UNCHANGED <<args, envvars, pages_needed, pages_to_add, calls, reorder_arg,
                   printed, pending, exitStatus, sigvars>>

\* lines 202-204: --print-pages with neither
Main_PrintPages_Missing ==
    /\ pc = "main" /\ args.print_pages /\ ~args.has_input /\ ~PagesSupplied(args)
    /\ Raise(1, FALSE)
    /\ UNCHANGED <<args, ret, fnvars, envvars, total_pages, pages_needed, pages_to_add,
                   calls, reorder_arg, printed, sigvars>>

\* lines 207-208: print the flat order, sys.exit(0)
Main_Print ==
    /\ pc = "print"
    /\ printed' = Join(pages_list)
    /\ Raise(0, FALSE)
    /\ UNCHANGED <<args, ret, fnvars, envvars, total_pages, pages_needed, pages_to_add,
                   calls, reorder_arg, sigvars>>

\* lines 210-211: parser.error exits with status 2
Main_RequireInput ==
    /\ pc = "main" /\ ~args.print_pages /\ ~args.has_input
    /\ Raise(2, FALSE)
    /\ UNCHANGED <<args, ret, fnvars, envvars, total_pages, pages_needed, pages_to_add,
                   calls, reorder_arg, printed, sigvars>>

\* lines 213-225: refuse to overwrite the output unless --force
Main_CheckOutput ==
    /\ pc = "main" /\ ~args.print_pages /\ args.has_input
    /\ IF OutputBlocked(outputFile # "absent", args.force)
       THEN Raise(1, FALSE)
       ELSE pc' = "mkdtemp" /\ UNCHANGED <<pending, exitStatus>>
    /\ UNCHANGED <<args, ret, fnvars, envvars, total_pages, pages_needed, pages_to_add,
                   calls, reorder_arg, printed, sigvars>>

\* lines 227-229: temp_dir = tempfile.mkdtemp(...)
Main_MkTemp ==
    /\ pc = "mkdtemp"
    /\ temp_dir' = "exists"
    /\ pc' = "reg_int"
    /\ UNCHANGED <<args, ret, fnvars, outputFile, docPages, extPages, handlers,
                   mainvars, sigvars>>

\* lines 232-234: signal.signal(SIGINT / SIGTERM / SIGQUIT, handle_cleanup)
Main_Register ==
    /\ pc \in {"reg_int", "reg_term", "reg_quit"}
    /\ handlers' = handlers \cup
           {CASE pc = "reg_int" -> "SIGINT"
              [] pc = "reg_term" -> "SIGTERM"
              [] OTHER -> "SIGQUIT"}
    /\ pc' = CASE pc = "reg_int" -> "reg_term"
               [] pc = "reg_term" -> "reg_quit"
               [] OTHER -> "copy"
    /\ UNCHANGED <<args, ret, fnvars, outputFile, docPages, extPages, temp_dir,
                   mainvars, sigvars>>

\* lines 236-241: shutil.copy(input_pdf, extended_pdf); it raises when the
\* input cannot be read
Main_Copy ==
    /\ pc = "copy"
    /\ \E ok \in BOOLEAN :
          IF ok
          THEN extPages' = docPages /\ pc' = "count" /\ UNCHANGED <<pending, exitStatus>>
          ELSE Raise(1, TRUE) /\ UNCHANGED extPages
    /\ UNCHANGED <<args, ret, fnvars, outputFile, docPages, temp_dir, handlers,
                   total_pages, pages_needed, pages_to_add, calls, reorder_arg, printed,
                   sigvars>>

\* lines 243-247: total_pages = get_number_of_pages(extended_pdf); pages_needed
Main_CountPages ==
    /\ pc = "count"
    /\ \E o \in CountOutcomes :
          /\ calls' = Logged("count", o.rc = 0 /\ o.line)
          /\ IF CountOk(o)
             THEN /\ total_pages' = extPages
                  /\ pages_needed' = RoundUp4(extPages)
                  /\ pc' = "blank"
                  /\ UNCHANGED <<pending, exitStatus>>
             ELSE Raise(1, TRUE) /\ UNCHANGED <<total_pages, pages_needed>>
    /\ UNCHANGED <<args, ret, fnvars, envvars, pages_to_add, reorder_arg, printed, sigvars>>

\* lines 107-109, 93-97: create_blank_pdf(blank_pdf)
Add_CreateBlank ==
    /\ pc = "blank"
    /\ \E rc \in ReturnCodes :
          /\ calls' = Logged("blank", rc = 0)
          /\ IF CollabFailed(rc)
             THEN Raise(1, TRUE)
             ELSE pc' = "add_count" /\ UNCHANGED <<pending, exitStatus>>
    /\ UNCHANGED <<args, ret, fnvars, envvars, total_pages, pages_needed, pages_to_add,
                   reorder_arg, printed, sigvars>>

\* lines 110-115: current_pages, pages_to_add, early return
Add_CountPages ==
    /\ pc = "add_count"
    /\ \E o \in CountOutcomes :
          /\ calls' = Logged("count", o.rc = 0 /\ o.line)
          /\ IF CountOk(o)
             THEN /\ pages_to_add' = pages_needed - extPages
                  /\ pc' = IF pages_needed - extPages <= 0 THEN "count_padded" ELSE "add_cat"
                  /\ UNCHANGED <<pending, exitStatus>>
             ELSE Raise(1, TRUE) /\ UNCHANGED pages_to_add
    /\ UNCHANGED <<args, ret, fnvars, envvars, total_pages, pages_needed, reorder_arg,
                   printed, sigvars>>

\* lines 116-124: pdftk <pdf> <blank>*pages_to_add cat output ...; shutil.move
Add_Cat ==
    /\ pc = "add_cat"
    /\ \E rc \in ReturnCodes :
          /\ calls' = Logged("pad", rc = 0)
          /\ IF CollabFailed(rc)
             THEN Raise(1, TRUE) /\ UNCHANGED extPages
             ELSE /\ extPages' = extPages + pages_to_add
                  /\ pc' = "count_padded"
                  /\ UNCHANGED <<pending, exitStatus>>
    /\ UNCHANGED <<args, ret, fnvars, outputFile, docPages, temp_dir, handlers,
                   total_pages, pages_needed, pages_to_add, reorder_arg, printed, sigvars>>

\* lines 250-253: count the padded document, call booklet_pages
Main_CountPadded ==
    /\ pc = "count_padded"
    /\ \E o \in CountOutcomes :
          /\ calls' = Logged("count", o.rc = 0 /\ o.line)
          /\ IF CountOk(o)
             THEN /\ total_pages' = extPages
                  /\ CallBookletPages(extPages, "reorder")
                  /\ pc' = "bp_enter"
                  /\ UNCHANGED <<pending, exitStatus>>
             ELSE Raise(1, TRUE) /\ UNCHANGED <<total_pages, ret, fnvars>>
    /\ UNCHANGED <<args, envvars, pages_needed, pages_to_add, reorder_arg, printed, sigvars>>

\* lines 257, 135-144: reorder_pdf_pages(extended_pdf, reordered_pdf, pages_list)
Main_Reorder ==
    /\ pc = "reorder"
    /\ reorder_arg' = [order |-> pages_list, docsize |-> extPages, called |-> TRUE]
    /\ \E rc \in ReturnCodes :
          /\ calls' = Logged("reorder", rc = 0)
          /\ IF CollabFailed(rc)
             THEN Raise(1, TRUE)
             ELSE pc' = "booklet" /\ UNCHANGED <<pending, exitStatus>>
    /\ UNCHANGED <<args, ret, fnvars, envvars, total_pages, pages_needed, pages_to_add,
                   printed, sigvars>>

\* lines 258, 154-166: create_booklet_pdf(reordered_pdf, output_pdf)
Main_CreateBooklet ==
    /\ pc = "booklet"
    /\ \E rc \in ReturnCodes :
          /\ calls' = Logged("impose", rc = 0)
          /\ IF CollabFailed(rc)
             THEN Raise(1, TRUE) /\ UNCHANGED outputFile
             ELSE /\ outputFile' = "new"
                  /\ pc' = "finally"
                  /\ UNCHANGED <<pending, exitStatus>>
    /\ UNCHANGED <<args, ret, fnvars, docPages, extPages, temp_dir, handlers,
                   total_pages, pages_needed, pages_to_add, reorder_arg, printed, sigvars>>

\* lines 262-267: the finally clause; shutil.rmtree raises FileNotFoundError
\* when the directory is already gone
Main_Finally ==
    /\ pc = "finally"
    /\ IF args.keep_temp
       THEN pc' = "main_return" /\ UNCHANGED <<temp_dir, pending, exitStatus>>
       ELSE IF temp_dir = "exists"
            THEN temp_dir' = "removed" /\ pc' = "main_return"
                 /\ UNCHANGED <<pending, exitStatus>>
            ELSE Raise(1, FALSE) /\ UNCHANGED temp_dir
    /\ UNCHANGED <<args, ret, fnvars, outputFile, docPages, extPages, handlers,
                   total_pages, pages_needed, pages_to_add, calls, reorder_arg, printed,
                   sigvars>>

\* lines 269-270: main() returns or the exception in flight leaves it
Main_Exit ==
    /\ pc = "main_return"
    /\ pc' = "exited"
    /\ exitStatus' = pending
    /\ UNCHANGED <<args, ret, fnvars, envvars, total_pages, pages_needed, pages_to_add,
                   calls, reorder_arg, printed, pending, sigvars>>

\* lines 168-173: handle_cleanup, run by the interpreter at the position
\* where the signal arrives; a signal without a registered handler takes its
\* default action (SIGTERM/SIGQUIT end the process, SIGINT raises
\* KeyboardInterrupt).  In the handler shutil.rmtree raises FileNotFoundError
\* when the directory is already gone; like sys.exit(1) that is an exception
\* ending the process with status 1.
Signal ==
    /\ pc \notin {"exited", "fn_done"}
    /\ sigCount < MaxSignals
    /\ \E sig \in Signals :
          IF sig \in handlers
          THEN /\ temp_dir' = IF ~args.keep_temp /\ temp_dir = "exists"
                              THEN "removed" ELSE temp_dir
               /\ Raise(1, InTry)
          ELSE /\ UNCHANGED temp_dir
               /\ IF sig = "SIGINT"
                  THEN Raise(SigStatus(sig), InTry)
                  ELSE Raise(SigStatus(sig), FALSE)
    /\ sigCount' = sigCount + 1
    /\ signalled' = TRUE
    /\ UNCHANGED <<args, ret, fnvars, outputFile, docPages, extPages, handlers,
                   total_pages, pages_needed, pages_to_add, calls, reorder_arg, printed>>

ArgSpace ==
    {a \in [print_pages : BOOLEAN, has_input : BOOLEAN, pages_given : BOOLEAN,
            pages : 0..MaxPagesArg, start : StartArgs, keep_temp : BOOLEAN,
            force : BOOLEAN] : a.pages_given \/ a.pages = 0}

\* the process after parse_args (line 189)
Init ==
    /\ args \in ArgSpace
    /\ outputFile \in {"absent", "old"}
    /\ docPages \in (IF args.has_input THEN 1..MaxDoc ELSE {0})
    /\ extPages = 0
    /\ temp_dir = "unset" /\ handlers = {}
    /\ pc = "main" /\ ret = "none"
    /\ call_n = 0 /\ n = 0 /\ start_page = 1
    /\ left = 0 /\ right = 0 /\ offset = 0 /\ sheets = <<>> /\ iter = 0
    /\ pages_list = <<>>
    /\ total_pages = 0 /\ pages_needed = 0 /\ pages_to_add = 0
    /\ calls = <<>> /\ reorder_arg = [order |-> <<>>, docsize |-> 0, called |-> FALSE]
    /\ printed = <<>> /\ pending = 0 /\ exitStatus = -1
    /\ sigCount = 0 /\ signalled = FALSE

Next ==
    \/ Main_PrintPages_Input \/ Main_PrintPages_N \/ Main_PrintPages_Missing
    \/ Main_Print \/ Main_RequireInput \/ Main_CheckOutput
    \/ Main_MkTemp \/ Main_Register \/ Main_Copy \/ Main_CountPages
    \/ Add_CreateBlank \/ Add_CountPages \/ Add_Cat \/ Main_CountPadded
    \/ BP_Enter \/ BP_Iterate \/ BP_Return \/ ToList
    \/ Main_Reorder \/ Main_CreateBooklet \/ Main_Finally \/ Main_Exit
    \/ Signal

Spec == Init /\ [][Next]_vars

\* ------------------------------------------------------------------------
\* Properties of booklet_pages / booklet_pages_to_list (under SpecFn).

\* n rounded up to a multiple of 4
NPrime(m) == CHOOSE k \in m..(m + 3) : k % 4 = 0

FnDone == pc = "fn_done"

\* number of tuple positions of the returned sheets that hold the value v
Occurrences(v) ==
    Cardinality({p \in (1..Len(sheets)) \X (1..4) : sheets[p[1]][p[2]] = v})

\* C1: for n >= 0 and start_page >= 1 the values in all tuple positions of
\* booklet_pages(n, start_page) are exactly start_page .. start_page + n' - 1,
\* each occurring exactly once (no duplicate, no omission).
C1_Bijection ==
    (FnDone /\ start_page >= 1) =>
        /\ \A v \in start_page..(start_page + NPrime(call_n) - 1) : Occurrences(v) = 1
        /\ \A i \in 1..Len(sheets) : \A j \in 1..4 :
               sheets[i][j] \in start_page..(start_page + NPrime(call_n) - 1)

C1_Witness ==
    FnDone /\ call_n = 10 /\ start_page = 3 /\ Len(sheets) = 3 /\ Occurrences(14) = 1

\* C2: the i-th sheet (i = 0 .. n'/4 - 1, outermost first) is
\* (n' - 2i + offset, 1 + 2i + offset, 2 + 2i + offset, n' - 2i - 1 + offset)
\* with offset = start_page - 1; booklet_pages(0,1) = [], booklet_pages(4,1) =
\* [(4,1,2,3)], booklet_pages(12,1) = [(12,1,2,11),(10,3,4,9),(8,5,6,7)].
C2_SheetFormula ==
    FnDone =>
        LET np == NPrime(call_n)
            off == start_page - 1
        IN /\ Len(sheets) = np \div 4
           /\ \A i \in 0..((np \div 4) - 1) :
                 sheets[i + 1] = <<np - 2 * i + off, 1 + 2 * i + off,
                                   2 + 2 * i + off, np - 2 * i - 1 + off>>
           /\ (call_n = 0 /\ start_page = 1) => sheets = <<>>
           /\ (call_n = 4 /\ start_page = 1) => sheets = << <<4, 1, 2, 3>> >>
           /\ (call_n = 12 /\ start_page = 1) =>
                 sheets = << <<12, 1, 2, 11>>, <<10, 3, 4, 9>>, <<8, 5, 6, 7>> >>

C2_Witness ==
    FnDone /\ call_n = 12 /\ start_page = 1 /\ Len(sheets) = 3 /\ sheets[2] = <<10, 3, 4, 9>>

\* The page met at position j when the printed sheets (two consecutive
\* entries of the flat order per side: front (t0,t1), back (t2,t3)) are
\* stacked outermost first, folded at the centre and leafed through:
\* t1,t2 of each sheet from the outside in, then t3,t0 from the inside out.
ReadAt(flat, j) ==
    LET k == Len(flat) \div 4
    IN IF j <= 2 * k
       THEN LET i == (j + 1) \div 2
            IN IF j % 2 = 1 THEN flat[4 * (i - 1) + 2] ELSE flat[4 * (i - 1) + 3]
       ELSE LET jj == j - 2 * k
                i == k - ((jj - 1) \div 2)
            IN IF jj % 2 = 1 THEN flat[4 * (i - 1) + 4] ELSE flat[4 * (i - 1) + 1]

\* C3: the flat order, laid out two entries per sheet side, stacked
\* outermost first and folded at the centre, reads start_page,
\* start_page + 1, ..., start_page + n' - 1 in increasing order.
C3_ReadingOrder ==
    FnDone =>
        /\ Len(pages_list) = NPrime(call_n)
        /\ \A j \in 1..Len(pages_list) : ReadAt(pages_list, j) = start_page + j - 1

C3_Witness ==
    FnDone /\ call_n = 7 /\ start_page = 2 /\ Len(pages_list) = 8
           /\ ReadAt(pages_list, 5) = 6

\* the padded page count as the padding law writes it
PaddingLaw(m) == m + ((4 - (m % 4)) % 4)

C4_Counts ==
    /\ (pc = "bp_loop") => iter <= PaddingLaw(call_n) \div 4
    /\ FnDone =>
        /\ iter = PaddingLaw(call_n) \div 4
        /\ Len(sheets) = PaddingLaw(call_n) \div 4
        /\ (start_page = 1) => Len(pages_list) = PaddingLaw(call_n)

\* C4: the loop of booklet_pages terminates, after exactly n'/4 iterations
\* with n' = n + (4 - n mod 4) mod 4; the result has n'/4 sheets and the
\* flattened list of booklet_pages(n, 1) has length n' (padding law).
C4_Termination == []C4_Counts /\ <>FnDone

C4_Witness ==
    FnDone /\ call_n = 5 /\ start_page = 1 /\ iter = 2 /\ Len(pages_list) = 8

\* C5: booklet_pages(n, s) has as many sheets as booklet_pages(n, 1) and each
\* element is the element of booklet_pages(n, 1) at the same sheet and tuple
\* position plus (s - 1).
C5_Shift ==
    FnDone =>
        LET base == BookletPages(call_n, 1)
        IN /\ Len(sheets) = Len(base)
           /\ \A i \in 1..Len(base) : \A j \in 1..4 :
                 sheets[i][j] = base[i][j] + (start_page - 1)

C5_Witness ==
    FnDone /\ call_n = 8 /\ start_page = 5
           /\ sheets = << <<12, 5, 6, 11>>, <<10, 7, 8, 9>> >>

\* ------------------------------------------------------------------------
\* Properties of main (under Spec).

Exited == pc = "exited"

\* C6: once the temporary directory exists, on every exit path (normal
\* completion, a failing tool, a signal at any point after the directory was
\* created) the directory is removed unless --keep-temp was given, and a
\* signal-triggered termination has a non-zero exit status.
C6_CleanupOnEveryExit ==
    (Exited /\ temp_dir # "unset") =>
        /\ args.keep_temp \/ temp_dir = "removed"
        /\ signalled => exitStatus # 0

\* C7: the page order handed to reorder_pdf_pages is a bijection onto the
\* pages 1 .. N of the padded document, for every --start value.
C7_OrderIsBijection ==
    reorder_arg.called =>
        LET order == reorder_arg.order
            N == reorder_arg.docsize
        IN /\ \A i \in 1..Len(order) : order[i] \in 1..N
           /\ \A p \in 1..N : Cardinality({i \in 1..Len(order) : order[i] = p}) = 1

OutputGuarded == ~args.print_pages /\ ~args.force /\ outputFile = "old"

\* C8: when the output file exists and --force is not given (and
\* --print-pages is not used), main ends with a non-zero exit status before
\* any work begins: no temporary directory, no external tool invoked, the
\* existing output file unchanged.
C8_OutputExists ==
    /\ [](OutputGuarded =>
            /\ temp_dir = "unset"
            /\ calls = <<>>
            /\ Exited => exitStatus # 0)
    /\ [][OutputGuarded => outputFile' = "old"]_vars

C8_Witness ==
    /\ Exited /\ OutputGuarded /\ args.has_input /\ ~signalled
    /\ exitStatus = 1 /\ temp_dir = "unset" /\ calls = <<>>

\* C9: the process exits with status 0 only if every invoked tool succeeded;
\* after a failed invocation no further tool is invoked (so the failed step
\* is not retried) and the exit status is non-zero; a missing required input
\* document exits non-zero.
C9_FailFast ==
    /\ \A i \in 1..(Len(calls) - 1) : calls[i].ok
    /\ (Exited /\ exitStatus = 0) => \A i \in 1..Len(calls) : calls[i].ok
    /\ (Exited /\ ~args.print_pages /\ ~args.has_input) => exitStatus # 0

C9_Witness ==
    /\ Exited /\ ~signalled /\ exitStatus = 1
    /\ Len(calls) = 4 /\ calls[4] = [tool |-> "pad", ok |-> FALSE]
    /\ temp_dir = "removed"

\* C10: in print-pages mode without an input document, for every n >= 0
\* given with -n/--pages (n = 0 included) and every start page, the tool
\* prints the flat order of booklet_pages(n, start) joined by the separator
\* and exits 0, creating no temporary directory and invoking no external
\* tool; it exits non-zero only when -n/--pages was not supplied.
C10_PrintPages ==
    (Exited /\ args.print_pages /\ ~args.has_input /\ ~signalled) =>
        /\ temp_dir = "unset" /\ calls = <<>>
        /\ args.pages_given =>
              /\ exitStatus = 0
              /\ printed = Join(booklet_pages_to_list(BookletPages(args.pages, args.start)))
        /\ exitStatus # 0 => ~args.pages_given

====
